---- MODULE Spec2Model ----
(***************************************************************************)
(* Model of RedisCacheManager (scripts/server-setup-deploy.sh, the         *)
(* embedded redis-cache-manager.ts) and of the scheduled cleanup task.     *)
(* The Redis server is modelled by its command semantics: every command    *)
(* is one atomic step, and every `await` of the manager is a point where   *)
(* other clients' commands may take effect.                                *)
(***************************************************************************)
EXTENDS Integers, Sequences, FiniteSets, TLC

VARIABLES store, clock, last, cl, gw, sl, bc, batch, timer, tick, st, conn

vars == <<store, clock, last, cl, gw, sl, bc, batch, timer, tick, st, conn>>

(***************************************************************************)
(* Bounds of the model.                                                    *)
(***************************************************************************)
MaxTTL == 2
MaxClock == 2
MaxProcs == 2
MaxFailed == 2
MaxRetries == 21
MaxAttempts == 2

(***************************************************************************)
(* Program constants.                                                      *)
(***************************************************************************)
NoExpiry == -1
KeyMissing == -2
SessionDefaultTTL == 3600

Procs == 1..MaxProcs

(***************************************************************************)
(* Keys are lists of their ':'-separated segments.                         *)
(***************************************************************************)
TempA == <<"cache", "temp", "a">>
TempB == <<"cache", "temp", "b">>
TempC == <<"cache", "temp", "c">>
TempD == <<"cache", "temp", "d">>
TempE == <<"cache", "temp", "e">>
SessionS == <<"cache", "session", "s">>
UserU == <<"cache", "user", "u">>
SlidingW == <<"cache", "sliding", "window">>
BloomP == <<"cache", "bloom", "products">>
BikesModels == <<"bikes", "models">>
Keys == {TempA, TempB, TempC, TempD, TempE, SessionS, UserU, SlidingW, BloomP, BikesModels}

TempPattern == <<"cache", "temp", "*">>
SessionPattern == <<"cache", "session", "*">>
CachePattern == <<"cache", "*">>

(***************************************************************************)
(* JSON.stringify / JSON.parse on the values the model uses.  A stored     *)
(* string that is not JSON text makes JSON.parse throw.                    *)
(***************************************************************************)
Values == {"a", "b"}
RawStrings == {"session-data", ""}
JSONstringify(v) == IF v = "a" THEN "\"a\"" ELSE "\"b\""
JSONTexts == {JSONstringify(v) : v \in Values}
JSONparse(s) ==
    IF s = "\"a\"" THEN [ok |-> TRUE, value |-> "a"]
    ELSE IF s = "\"b\"" THEN [ok |-> TRUE, value |-> "b"]
    ELSE [ok |-> FALSE, value |-> "SyntaxError"]
Nil == "nil"

(***************************************************************************)
(* The store: every key is absent, or holds a string and a TTL             *)
(* (NoExpiry, or the seconds left).                                        *)
(***************************************************************************)
\* A key that holds a string holds no Bloom filter.
NoFilter == [errorRate |-> 0, capacity |-> 0, layers |-> <<>>, members |-> {}]
AbsentEntry == [val |-> Nil, ttl |-> KeyMissing, filter |-> NoFilter]
EmptyStore == [k \in Keys |-> AbsentEntry]
Exists(s, k) == s[k].ttl # KeyMissing

\* GET key: the string, or Nil (null) for an absent key.
GET(s, k) == s[k].val

\* TTL key: seconds left, -1 for a key with no expiry, -2 for an absent key.
TTL(s, k) == s[k].ttl

\* SET key value: writes the value and discards any TTL.
SET(s, k, str) ==
    [s EXCEPT ![k] = [val |-> str, ttl |-> NoExpiry, filter |-> NoFilter]]

\* The error of a call that raised none.
NoError == "none"

\* SETEX key seconds value: refused by the server unless seconds > 0.
SetexInvalidExpire == "ERR invalid expire time in 'setex' command"
SETEXok(t) == t > 0
SETEX(s, k, t, str) ==
    IF SETEXok(t)
    THEN [s EXCEPT ![k] = [val |-> str, ttl |-> t, filter |-> NoFilter]]
    ELSE s

\* EXPIRE key seconds: no effect on an absent key; a timeout <= 0 deletes the key.
EXPIRE(s, k, t) ==
    IF ~Exists(s, k) THEN s
    ELSE IF t <= 0 THEN [s EXCEPT ![k] = AbsentEntry]
    ELSE [s EXCEPT ![k].ttl = t]

\* DEL key: the reply is the number of keys removed.
DEL(s, k) == [s EXCEPT ![k] = AbsentEntry]
DELreply(s, k) == IF Exists(s, k) THEN 1 ELSE 0

\* KEYS pattern, for glob patterns that are literal or end in '*'.
GlobMatch(pat, k) ==
    LET n == Len(pat) IN
    IF n > 0 /\ pat[n] = "*"
    THEN Len(k) >= n /\ \A i \in 1..(n - 1) : k[i] = pat[i]
    ELSE k = pat
KEYS(s, pat) == {k \in Keys : Exists(s, k) /\ GlobMatch(pat, k)}

\* The orders in which KEYS may list a set of keys.
Orders(S) ==
    {q \in [1..Cardinality(S) -> S] : \A i, j \in 1..Cardinality(S) : q[i] = q[j] => i = j}

\* The server's clock: d seconds pass, keys whose time is up are gone.
Age(s, d) ==
    [k \in Keys |->
        IF s[k].ttl > 0
        THEN IF s[k].ttl > d THEN [s[k] EXCEPT !.ttl = s[k].ttl - d] ELSE AbsentEntry
        ELSE s[k]]

(***************************************************************************)
(* Bloom filters (the store's BF.* commands).  A filter is a stack of bit   *)
(* arrays: an item sets the bits of its hash in the newest array, and a     *)
(* full array makes the server stack a larger one on top.  Error rates are  *)
(* in percent.  The field members, the items added since the filter was     *)
(* created, is history: no command reads it.                                *)
(***************************************************************************)
Items == {"p1", "p2", "p3"}
Hash(x) == IF x = "p1" THEN {1, 2} ELSE IF x = "p2" THEN {2, 3} ELSE {1, 3}

\* What the server gives a filter that BF.ADD creates, and the growth factor
\* of stacked arrays.
DefaultErrorRate == 1
DefaultCapacity == 100
Expansion == 2

BfItemExists == "ERR item exists"

IsFilter(s, k) == Exists(s, k) /\ Len(s[k].filter.layers) > 0

NewFilter(e, c) ==
    [errorRate |-> e, capacity |-> c, layers |-> <<[bits |-> {}, n |-> 0]>>,
     members |-> {}]

LayerCapacity(f, i) == f.capacity * Expansion ^ (i - 1)

FilterHas(f, x) == \E i \in 1..Len(f.layers) : Hash(x) \subseteq f.layers[i].bits

\* (mutation) a filter of fixed size that starts over when it is full
FilterAddRestart(f, x) ==
    IF FilterHas(f, x) THEN [f EXCEPT !.members = @ \cup {x}]
    ELSE IF f.layers[1].n < LayerCapacity(f, 1)
    THEN [f EXCEPT !.members = @ \cup {x},
                   !.layers[1] = [bits |-> @.bits \cup Hash(x), n |-> @.n + 1]]
    ELSE [f EXCEPT !.members = @ \cup {x},
                   !.layers = <<[bits |-> Hash(x), n |-> 1]>>]

FilterAdd(f, x) ==
    IF FilterHas(f, x) THEN [f EXCEPT !.members = @ \cup {x}]
    ELSE IF f.layers[Len(f.layers)].n < LayerCapacity(f, Len(f.layers))
    THEN [f EXCEPT !.members = @ \cup {x},
                   !.layers[Len(f.layers)] =
                       [bits |-> @.bits \cup Hash(x), n |-> @.n + 1]]
    ELSE [f EXCEPT !.members = @ \cup {x},
                   !.layers = Append(@, [bits |-> Hash(x), n |-> 1])]

\* BF.RESERVE key error_rate capacity: refused for an error rate outside
\* (0, 1), a capacity below 1, or a key that exists.
BFRESERVEerr(s, k, e, c) ==
    IF ~(0 < e /\ e < 100) THEN "ERR (0 < error rate range < 1)"
    ELSE IF c < 1 THEN "ERR (capacity should be larger than 0)"
    ELSE IF Exists(s, k) THEN BfItemExists
    ELSE NoError
BFRESERVE(s, k, e, c) ==
    IF BFRESERVEerr(s, k, e, c) = NoError
    THEN [s EXCEPT ![k] = [val |-> Nil, ttl |-> NoExpiry, filter |-> NewFilter(e, c)]]
    ELSE s

\* BF.ADD key item: on an absent key the server creates a filter with its
\* defaults first; the reply is whether the item was new to the filter.
BFADDerr(s, k) == IF Exists(s, k) /\ ~IsFilter(s, k) THEN "WRONGTYPE Operation against a key holding the wrong kind of value"
    ELSE NoError
FilterAt(s, k) ==
    IF IsFilter(s, k) THEN s[k].filter ELSE NewFilter(DefaultErrorRate, DefaultCapacity)
BFADD(s, k, x) ==
    IF BFADDerr(s, k) # NoError THEN s
    ELSE [s EXCEPT ![k] = [val |-> Nil,
                           ttl |-> IF Exists(s, k) THEN s[k].ttl ELSE NoExpiry,
                           filter |-> FilterAdd(FilterAt(s, k), x)]]
BFADDreply(s, k, x) == ~FilterHas(FilterAt(s, k), x)

\* BF.EXISTS key item: false on an absent key.
BFEXISTS(s, k, x) == IsFilter(s, k) /\ FilterHas(s[k].filter, x)

\* BF.MADD key item...: the items one after the other.
RECURSIVE BFMADD(_, _, _, _)
BFMADD(s, k, xs, i) ==
    IF i > Len(xs) THEN s ELSE BFMADD(BFADD(s, k, xs[i]), k, xs, i + 1)

\* (mutation) replies listed from the last item to the first
BFMEXISTSReversed(s, k, xs) ==
    [i \in 1..Len(xs) |-> BFEXISTS(s, k, xs[Len(xs) + 1 - i])]

\* BF.MEXISTS key item...
BFMEXISTS(s, k, xs) == [i \in 1..Len(xs) |-> BFEXISTS(s, k, xs[i])]

\* The manager call that has just completed: its arguments, the number of
\* commands it sent to the store, and the error it raised to its caller.
NoOp ==
    [op |-> "none", key |-> <<>>, ttl |-> 0, prev |-> 0, ok |-> TRUE,
     sent |-> 0, err |-> NoError]
Quiet == last' = NoOp

(***************************************************************************)
(* cleanup(pattern): lines 340-356.                                        *)
(***************************************************************************)
\* pattern.includes('temp')
IncludesTemp(pat) == \E i \in 1..Len(pat) : pat[i] = "temp"

\* (mutation) the purge test without the no-expiry condition: any existing key
ShouldPurgeAnyTtl(ttl, pat) == ttl # KeyMissing /\ IncludesTemp(pat)

\* (mutation) the purge test without the marker condition
ShouldPurgeAnyPattern(ttl, pat) == ttl = NoExpiry

\* if (ttl === -1 && pattern.includes('temp'))
ShouldPurge(ttl, pat) == ttl = NoExpiry /\ IncludesTemp(pat)

ClIdle ==
    [pc |-> "idle", op |-> "cleanup", pattern |-> <<>>, keys |-> <<>>, idx |-> 0, seen |-> 0,
     deletedCount |-> 0, removed |-> 0, liveDel |-> FALSE, result |-> -1]

ClKey(p) == cl[p].keys[cl[p].idx]

\* for (const key of keys): the next key's TTL query, or the end of the loop
\* and return deletedCount.
ClAdvance(c) ==
    IF c.idx < Len(c.keys)
    THEN [c EXCEPT !.pc = "ttl", !.idx = c.idx + 1, !.seen = 0]
    ELSE [c EXCEPT !.pc = "done", !.keys = <<>>, !.idx = 0, !.seen = 0,
                   !.result = c.deletedCount]

\* cleanup's caller resumes when cleanup returns: a scheduler tick drops the
\* count and goes on to query the session keys (lines 401-404).
ClResume(p, c) ==
    IF c.pc = "done" /\ tick[p].pc = "purge"
    THEN /\ cl' = [cl EXCEPT ![p] = ClIdle]
         /\ tick' = [tick EXCEPT ![p].pc = "skeys"]
    ELSE /\ cl' = [cl EXCEPT ![p] = c]
         /\ UNCHANGED tick

\* A caller invokes cleanup(pattern), which issues KEYS.
CleanupCall(p, pat) ==
    /\ cl[p].pc \in {"idle", "done"}
    /\ tick[p].pc = "idle"
    /\ cl' = [cl EXCEPT ![p] = [ClIdle EXCEPT !.pc = "keys", !.pattern = pat]]
    /\ Quiet
    /\ UNCHANGED <<store, clock, gw, batch, timer, tick, sl, bc, st, conn>>

\* (mutation) a KEYS step that returns without a count when nothing matched
CleanupKeysUnsetOnEmpty(p) ==
    /\ cl[p].pc = "keys"
    /\ \E q \in Orders(KEYS(store, cl[p].pattern)) :
          ClResume(p, IF q = <<>>
                      THEN [ClIdle EXCEPT !.pc = "done", !.pattern = cl[p].pattern]
                      ELSE ClAdvance([cl[p] EXCEPT !.keys = q]))
    /\ Quiet
    /\ UNCHANGED <<store, clock, gw, batch, timer, sl, bc, st, conn>>

\* const keys = await this.client.keys(pattern); let deletedCount = 0;
CleanupKeys(p) ==
    /\ cl[p].pc = "keys"
    /\ \E q \in Orders(KEYS(store, cl[p].pattern)) :
          ClResume(p, ClAdvance([cl[p] EXCEPT !.keys = q]))
    /\ Quiet
    /\ UNCHANGED <<store, clock, gw, batch, timer, sl, bc, st, conn>>

\* const ttl = await this.client.ttl(key); if (...)
CleanupTtl(p) ==
    /\ cl[p].pc = "ttl"
    /\ LET t == TTL(store, ClKey(p)) IN
          ClResume(p, IF ShouldPurge(t, cl[p].pattern)
                      THEN [cl[p] EXCEPT !.pc = "del", !.seen = t]
                      ELSE ClAdvance(cl[p]))
    /\ Quiet
    /\ UNCHANGED <<store, clock, gw, batch, timer, sl, bc, st, conn>>

\* (mutation) a delete that looks at the TTL again and keeps a key that gained one
CleanupDelRecheck(p) ==
    /\ cl[p].pc = "del"
    /\ LET live == TTL(store, ClKey(p)) # NoExpiry IN
          /\ store' = IF live THEN store ELSE DEL(store, ClKey(p))
          /\ ClResume(p, IF live THEN ClAdvance(cl[p])
                         ELSE ClAdvance([cl[p] EXCEPT
                                  !.deletedCount = @ + 1,
                                  !.removed = @ + DELreply(store, ClKey(p))]))
    /\ Quiet
    /\ UNCHANGED <<clock, gw, batch, timer, sl, bc, st, conn>>

\* (mutation) a delete that does not count
CleanupDelUncounted(p) ==
    /\ cl[p].pc = "del"
    /\ store' = DEL(store, ClKey(p))
    /\ ClResume(p, ClAdvance([cl[p] EXCEPT !.removed = @ + DELreply(store, ClKey(p))]))
    /\ Quiet
    /\ UNCHANGED <<clock, gw, batch, timer, sl, bc, st, conn>>

\* await this.client.del(key); deletedCount++;
CleanupDel(p) ==
    /\ cl[p].pc = "del"
    /\ store' = DEL(store, ClKey(p))
    /\ ClResume(p, ClAdvance([cl[p] EXCEPT
                      !.deletedCount = @ + 1,
                      !.removed = @ + DELreply(store, ClKey(p)),
                      !.liveDel = @ \/ TTL(store, ClKey(p)) > 0]))
    /\ Quiet
    /\ UNCHANGED <<clock, gw, batch, timer, sl, bc, st, conn>>

\* cleanup(pattern) as one uninterrupted run on store s, from the i-th key of
\* the KEYS reply on: the store it leaves and the count it returns.
RECURSIVE CleanupRun(_, _, _, _, _)
CleanupRun(s, pat, keys, i, deletedCount) ==
    IF i > Len(keys) THEN [store |-> s, deletedCount |-> deletedCount]
    ELSE IF ShouldPurge(TTL(s, keys[i]), pat)
    THEN CleanupRun(DEL(s, keys[i]), pat, keys, i + 1, deletedCount + 1)
    ELSE CleanupRun(s, pat, keys, i + 1, deletedCount)

(***************************************************************************)
(* DELETE /api/cache/:pattern of the server that talks to the store        *)
(* directly: lines 723-741.                                                *)
(***************************************************************************)
\* const keys = await redisClient.keys(pattern); let deletedCount = 0;
\* if (keys.length > 0) ... else res.json({ success: true, deletedCount })
ApiCacheDeleteKeys(p, pat) ==
    /\ cl[p].pc \in {"idle", "done"}
    /\ tick[p].pc = "idle"
    /\ \E q \in Orders(KEYS(store, pat)) :
          cl' = [cl EXCEPT ![p] =
                    IF Len(q) > 0
                    THEN [ClIdle EXCEPT !.op = "apiCacheDelete", !.pc = "delAll",
                                        !.pattern = pat, !.keys = q]
                    ELSE [ClIdle EXCEPT !.op = "apiCacheDelete", !.pc = "done",
                                        !.pattern = pat, !.deletedCount = 0, !.result = 0]]
    /\ Quiet
    /\ UNCHANGED <<store, clock, gw, batch, timer, tick, sl, bc, st, conn>>

\* deletedCount = await redisClient.del(keys); res.json({ success: true, deletedCount })
ApiCacheDeleteDel(p) ==
    /\ cl[p].pc = "delAll"
    /\ LET named == {cl[p].keys[i] : i \in 1..Len(cl[p].keys)}
           reply == Cardinality({k \in named : Exists(store, k)})
       IN /\ store' = [k \in Keys |-> IF k \in named THEN AbsentEntry ELSE store[k]]
          /\ cl' = [cl EXCEPT ![p] = [@ EXCEPT !.pc = "done", !.keys = <<>>,
                                               !.deletedCount = reply, !.removed = reply,
                                               !.result = reply]]
    /\ Quiet
    /\ UNCHANGED <<clock, gw, batch, timer, tick, sl, bc, st, conn>>

(***************************************************************************)
(* getWithRefresh(key, refreshTTL): lines 259-268.  A refreshTTL of 0      *)
(* stands for the omitted argument as well: both are falsy.                *)
(***************************************************************************)
GwIdle ==
    [pc |-> "idle", key |-> <<>>, refreshTTL |-> 0, value |-> Nil,
     expired |-> FALSE, appliedTo |-> Nil, result |-> Nil, threw |-> FALSE]

\* JavaScript truthiness of GET's reply (null and the empty string are falsy)
\* and of a number.
TruthyStr(str) == str # Nil /\ str # ""
TruthyNum(t) == t # 0

\* return value ? JSON.parse(value) : null;
GwFinish(g) ==
    IF TruthyStr(g.value)
    THEN [g EXCEPT !.pc = "done", !.result = JSONparse(g.value).value,
                   !.threw = ~JSONparse(g.value).ok]
    ELSE [g EXCEPT !.pc = "done", !.result = Nil]

GetWithRefreshCall(k, t) ==
    /\ gw.pc \in {"idle", "done"}
    /\ gw' = [GwIdle EXCEPT !.pc = "get", !.key = k, !.refreshTTL = t]
    /\ Quiet
    /\ UNCHANGED <<store, clock, cl, batch, timer, tick, sl, bc, st, conn>>

\* (mutation) the refresh decided by refreshTTL alone, whatever GET replied
GwGetStepAnyReply(g, s) ==
    LET h == [g EXCEPT !.value = GET(s, g.key)] IN
    IF TruthyNum(h.refreshTTL) THEN [h EXCEPT !.pc = "expire"] ELSE GwFinish(h)

\* const value = await this.client.get(key); if (value && refreshTTL) ...
GwGetStep(g, s) ==
    LET h == [g EXCEPT !.value = GET(s, g.key)] IN
    IF TruthyStr(h.value) /\ TruthyNum(h.refreshTTL)
    THEN [h EXCEPT !.pc = "expire"]
    ELSE GwFinish(h)

GwGet ==
    /\ gw.pc = "get"
    /\ gw' = GwGetStep(gw, store)
    /\ Quiet
    /\ UNCHANGED <<store, clock, cl, batch, timer, tick, sl, bc, st, conn>>

\* await this.client.expire(key, refreshTTL); ... return JSON.parse(value)
GwExpire ==
    /\ gw.pc = "expire"
    /\ store' = EXPIRE(store, gw.key, gw.refreshTTL)
    /\ gw' = GwFinish([gw EXCEPT !.expired = TRUE, !.appliedTo = GET(store, gw.key)])
    /\ Quiet
    /\ UNCHANGED <<clock, cl, batch, timer, tick, sl, bc, st, conn>>

\* getWithRefresh(key, refreshTTL) as one uninterrupted run on store s: the
\* store it leaves, what it returns and whether it throws.
GetWithRefreshRun(s, k, t) ==
    LET g == GwGetStep([GwIdle EXCEPT !.pc = "get", !.key = k, !.refreshTTL = t], s) IN
    IF g.pc = "expire"
    THEN [store |-> EXPIRE(s, k, t), result |-> GwFinish(g).result,
          threw |-> GwFinish(g).threw]
    ELSE [store |-> s, result |-> g.result, threw |-> g.threw]

(***************************************************************************)
(* setSlidingCache(key, value, ttlSeconds) and getSlidingCache(key,        *)
(* ttlSeconds): lines 273-287.  sl.touched is the time of the last write   *)
(* of the key by setSlidingCache or of the last read's GET that found it,  *)
(* sl.window the window of the last write, and sl.fresh says that every    *)
(* read since that write used its window and came less than a window after *)
(* the touch before it.                                                    *)
(***************************************************************************)
SlIdle ==
    [pc |-> "idle", key |-> <<>>, ttlSeconds |-> 0, value |-> Nil, result |-> Nil,
     threw |-> FALSE, window |-> 0, touched |-> 0, fresh |-> FALSE]

\* return JSON.parse(value);  /  return null;
SlFinish(g) ==
    IF TruthyStr(g.value)
    THEN [g EXCEPT !.pc = "done", !.result = JSONparse(g.value).value,
                   !.threw = ~JSONparse(g.value).ok]
    ELSE [g EXCEPT !.pc = "done", !.result = Nil]

\* await this.client.setEx(key, ttlSeconds, JSON.stringify(value));
SetSlidingCache(k, v, t) ==
    /\ sl.pc \in {"idle", "done"}
    /\ store' = SETEX(store, k, t, JSONstringify(v))
    /\ sl' = [SlIdle EXCEPT !.key = k, !.window = t, !.touched = clock,
                            !.fresh = SETEXok(t)]
    /\ last' = [op |-> "setSlidingCache", key |-> k, ttl |-> t, prev |-> TTL(store, k),
                ok |-> SETEXok(t), sent |-> 1,
                err |-> IF SETEXok(t) THEN NoError ELSE SetexInvalidExpire]
    /\ UNCHANGED <<clock, cl, gw, bc, batch, timer, tick, st, conn>>

GetSlidingCacheCall(k, t) ==
    /\ sl.pc \in {"idle", "done"}
    /\ sl' = [sl EXCEPT !.pc = "get", !.key = k, !.ttlSeconds = t, !.value = Nil,
                        !.result = Nil, !.threw = FALSE]
    /\ Quiet
    /\ UNCHANGED <<store, clock, cl, gw, bc, batch, timer, tick, st, conn>>

\* const value = await this.client.get(key); if (value) ...
SlGetStep(g, s) ==
    LET h == [g EXCEPT !.value = GET(s, g.key)] IN
    IF TruthyStr(h.value) THEN [h EXCEPT !.pc = "expire"] ELSE SlFinish(h)

SlGet ==
    /\ sl.pc = "get"
    /\ LET found == Exists(store, sl.key) IN
          sl' = [SlGetStep(sl, store) EXCEPT
                    !.fresh = sl.fresh /\ found /\ sl.ttlSeconds = sl.window
                                 /\ clock - sl.touched < sl.window,
                    !.touched = IF found THEN clock ELSE sl.touched]
    /\ Quiet
    /\ UNCHANGED <<store, clock, cl, gw, bc, batch, timer, tick, st, conn>>

\* await this.client.expire(key, ttlSeconds); return JSON.parse(value);
SlExpire ==
    /\ sl.pc = "expire"
    /\ store' = EXPIRE(store, sl.key, sl.ttlSeconds)
    /\ sl' = SlFinish(sl)
    /\ Quiet
    /\ UNCHANGED <<clock, cl, gw, bc, batch, timer, tick, st, conn>>

\* getSlidingCache(key, ttlSeconds) as one uninterrupted run on store s.
GetSlidingCacheRun(s, k, t) ==
    LET g == SlGetStep([SlIdle EXCEPT !.pc = "get", !.key = k, !.ttlSeconds = t], s) IN
    IF g.pc = "expire"
    THEN [store |-> EXPIRE(s, k, t), result |-> SlFinish(g).result,
          threw |-> SlFinish(g).threw]
    ELSE [store |-> s, result |-> g.result, threw |-> g.threw]

(***************************************************************************)
(* Bloom filter calls: createBloomCache (lines 296-300), addToBloomCache   *)
(* (lines 305-313) and the endpoints POST /api/bloom/create, /add and      *)
(* /check (lines 583-658).  bc.sent counts the commands the call has sent  *)
(* to the store, bc.err is the error it ends with, and bc.held says that   *)
(* the name held a filter when the add reached the store.                  *)
(***************************************************************************)
ClientClosed == "The client is closed"

BcIdle ==
    [pc |-> "idle", op |-> "none", name |-> <<>>, errorRate |-> 0, capacity |-> 0,
     ttl |-> 0, items |-> <<>>, many |-> FALSE, results |-> <<>>, sent |-> 0,
     err |-> NoError, held |-> FALSE]

\* createBloomCache(name, errorRate, capacity, ttlSeconds)
CreateBloomCacheCall(n, e, c, t) ==
    /\ bc.pc \in {"idle", "done"}
    /\ bc' = [BcIdle EXCEPT !.pc = "reserve", !.op = "createBloomCache", !.name = n,
                            !.errorRate = e, !.capacity = c, !.ttl = t]
    /\ Quiet
    /\ UNCHANGED <<store, clock, cl, gw, sl, batch, timer, tick, st, conn>>

\* POST /api/bloom/create { name, errorRate, capacity, ttl }
ApiBloomCreateCall(n, e, c, t) ==
    /\ bc.pc \in {"idle", "done"}
    /\ bc' = [BcIdle EXCEPT !.pc = "reserve", !.op = "apiBloomCreate", !.name = n,
                            !.errorRate = e, !.capacity = c, !.ttl = t]
    /\ Quiet
    /\ UNCHANGED <<store, clock, cl, gw, sl, batch, timer, tick, st, conn>>

\* (mutation) a reserve whose refusal is swallowed: the expire follows anyway
BcReserveSwallows ==
    /\ bc.pc = "reserve"
    /\ store' = BFRESERVE(store, bc.name, bc.errorRate, bc.capacity)
    /\ bc' = [bc EXCEPT !.pc = "expire", !.sent = @ + 1]
    /\ Quiet
    /\ UNCHANGED <<clock, cl, gw, sl, batch, timer, tick, st, conn>>

\* await this.client.bf.reserve(name, errorRate, capacity); the endpoint
\* goes on to the expire only if (ttl).
BcReserve ==
    /\ bc.pc = "reserve"
    /\ store' = BFRESERVE(store, bc.name, bc.errorRate, bc.capacity)
    /\ LET err == BFRESERVEerr(store, bc.name, bc.errorRate, bc.capacity) IN
          bc' = IF err # NoError
                THEN [bc EXCEPT !.pc = "done", !.sent = @ + 1, !.err = err]
                ELSE IF bc.op = "createBloomCache" \/ TruthyNum(bc.ttl)
                THEN [bc EXCEPT !.pc = "expire", !.sent = @ + 1]
                ELSE [bc EXCEPT !.pc = "done", !.sent = @ + 1]
    /\ Quiet
    /\ UNCHANGED <<clock, cl, gw, sl, batch, timer, tick, st, conn>>

\* await this.client.expire(name, ttlSeconds);
BcExpire ==
    /\ bc.pc = "expire"
    /\ store' = EXPIRE(store, bc.name, bc.ttl)
    /\ bc' = [bc EXCEPT !.pc = "done", !.sent = @ + 1]
    /\ Quiet
    /\ UNCHANGED <<clock, cl, gw, sl, batch, timer, tick, st, conn>>

\* The expire does not reach the store: the connection is gone, or the
\* caller's process has ended.
BcExpireFail ==
    /\ bc.pc = "expire"
    /\ bc' = [bc EXCEPT !.pc = "done", !.err = ClientClosed]
    /\ Quiet
    /\ UNCHANGED <<store, clock, cl, gw, sl, batch, timer, tick, st, conn>>

\* addToBloomCache(name, item, ttlSeconds?)
AddToBloomCacheCall(n, x, t) ==
    /\ bc.pc \in {"idle", "done"}
    /\ bc' = [BcIdle EXCEPT !.pc = "add", !.op = "addToBloomCache", !.name = n,
                            !.items = <<x>>, !.ttl = t]
    /\ Quiet
    /\ UNCHANGED <<store, clock, cl, gw, sl, batch, timer, tick, st, conn>>

\* POST /api/bloom/:name/add { items, ttl }: an array goes to bf.mAdd
ApiBloomAddCall(n, xs, t) ==
    /\ bc.pc \in {"idle", "done"}
    /\ bc' = [BcIdle EXCEPT !.pc = "add", !.op = "apiBloomAdd", !.name = n,
                            !.items = xs, !.many = TRUE, !.ttl = t]
    /\ Quiet
    /\ UNCHANGED <<store, clock, cl, gw, sl, batch, timer, tick, st, conn>>

\* await this.client.bf.add(name, item) / bf.mAdd(name, items); if (ttlSeconds) ...
BcAdd ==
    /\ bc.pc = "add"
    /\ store' = IF bc.many THEN BFMADD(store, bc.name, bc.items, 1)
                ELSE BFADD(store, bc.name, bc.items[1])
    /\ bc' = IF BFADDerr(store, bc.name) # NoError
             THEN [bc EXCEPT !.pc = "done", !.sent = @ + 1,
                             !.err = BFADDerr(store, bc.name)]
             ELSE [bc EXCEPT !.pc = IF TruthyNum(bc.ttl) THEN "expire" ELSE "done",
                             !.sent = @ + 1,
                             !.held = IsFilter(store, bc.name),
                             !.results = IF bc.many
                                         THEN [i \in 1..Len(bc.items) |->
                                                 BFADDreply(BFMADD(store, bc.name,
                                                                   SubSeq(bc.items, 1, i - 1), 1),
                                                            bc.name, bc.items[i])]
                                         ELSE <<BFADDreply(store, bc.name, bc.items[1])>>]
    /\ Quiet
    /\ UNCHANGED <<clock, cl, gw, sl, batch, timer, tick, st, conn>>

\* POST /api/bloom/:name/check { items }: a string goes to bf.exists, an
\* array to bf.mExists
ApiBloomCheckCall(n, xs, many) ==
    /\ bc.pc \in {"idle", "done"}
    /\ many \/ Len(xs) = 1
    /\ bc' = [BcIdle EXCEPT !.pc = "exists", !.op = "apiBloomCheck", !.name = n,
                            !.items = xs, !.many = many]
    /\ Quiet
    /\ UNCHANGED <<store, clock, cl, gw, sl, batch, timer, tick, st, conn>>

\* results = await redisClient.bf.exists(name, items) / bf.mExists(name, items)
BcExists ==
    /\ bc.pc = "exists"
    /\ bc' = IF BFADDerr(store, bc.name) # NoError
             THEN [bc EXCEPT !.pc = "done", !.sent = @ + 1,
                             !.err = BFADDerr(store, bc.name)]
             ELSE [bc EXCEPT !.pc = "done", !.sent = @ + 1,
                             !.results = BFMEXISTS(store, bc.name, bc.items)]
    /\ Quiet
    /\ UNCHANGED <<store, clock, cl, gw, sl, batch, timer, tick, st, conn>>

(***************************************************************************)
(* getCacheStats(): lines 361-371, and parseInfo, lines 446-460.  An INFO  *)
(* reply is a list of lines, each a section header or a field:value pair.  *)
(***************************************************************************)
InfoSections == <<"memory", "keyspace", "stats">>

\* INFO section: the keyspace section has a db0 line only while keys exist.
INFO(s, section) ==
    IF section = "memory" THEN <<[k |-> "#", v |-> "Memory"], [k |-> "used_memory_human", v |-> "1M"]>>
    ELSE IF section = "stats" THEN <<[k |-> "#", v |-> "Stats"], [k |-> "expired_keys", v |-> "0"]>>
    ELSE IF \E k \in Keys : Exists(s, k)
    THEN <<[k |-> "#", v |-> "Keyspace"],
           [k |-> "db0",
            v |-> "keys=" \o ToString(Cardinality({k \in Keys : Exists(s, k)}))
                  \o ",expires=" \o ToString(Cardinality({k \in Keys : s[k].ttl > 0}))]>>
    ELSE <<[k |-> "#", v |-> "Keyspace"]>>

\* parseInfo(infoString): the fields of the lines that are not headers.
ParseInfo(lines) ==
    {<<lines[i].k, lines[i].v>> : i \in {j \in 1..Len(lines) :
                                           lines[j].k # "#" /\ lines[j].k # "" /\ lines[j].v # ""}}

StIdle ==
    [pc |-> "idle", at |-> 0, replies |-> <<>>, threw |-> FALSE, failed |-> "none",
     result |-> <<>>]

GetCacheStatsCall ==
    /\ st.pc \in {"idle", "done"}
    /\ st' = [StIdle EXCEPT !.pc = "info", !.at = 1]
    /\ Quiet
    /\ UNCHANGED <<store, clock, cl, gw, sl, bc, batch, timer, tick, conn>>

\* (mutation) a statistics read that resets the database it reports on
StInfoFlushes ==
    /\ st.pc = "info"
    /\ store' = EmptyStore
    /\ LET replies == Append(st.replies, INFO(store, InfoSections[st.at])) IN
          st' = IF st.at < Len(InfoSections)
                THEN [st EXCEPT !.at = @ + 1, !.replies = replies]
                ELSE [st EXCEPT !.pc = "done", !.replies = replies,
                                !.result = [i \in 1..Len(InfoSections) |->
                                               ParseInfo(replies[i])]]
    /\ Quiet
    /\ UNCHANGED <<clock, cl, gw, sl, bc, batch, timer, tick, conn>>

\* const info = await this.client.info('memory'); ... 'keyspace' ... 'stats';
\* after the third reply: return { memory: this.parseInfo(info), ... }
StInfo ==
    /\ st.pc = "info"
    /\ store' = store
    /\ LET replies == Append(st.replies, INFO(store, InfoSections[st.at])) IN
          st' = IF st.at < Len(InfoSections)
                THEN [st EXCEPT !.at = @ + 1, !.replies = replies]
                ELSE [st EXCEPT !.pc = "done", !.replies = replies,
                                !.result = [i \in 1..Len(InfoSections) |->
                                               ParseInfo(replies[i])]]
    /\ Quiet
    /\ UNCHANGED <<clock, cl, gw, sl, bc, batch, timer, tick, conn>>

\* The awaited INFO rejects: nothing catches it inside getCacheStats, the
\* call rejects and the replies already received are dropped.
StInfoFail ==
    /\ st.pc = "info"
    /\ st' = [st EXCEPT !.pc = "done", !.threw = TRUE, !.failed = InfoSections[st.at]]
    /\ Quiet
    /\ UNCHANGED <<store, clock, cl, gw, sl, bc, batch, timer, tick, conn>>

(***************************************************************************)
(* The client's connection: constructor, lines 217-228.  A command is      *)
(* written to the socket while it is ready and waits in the client's queue *)
(* while the client reconnects.  When the socket closes, the commands      *)
(* written and not answered are rejected, and the client asks              *)
(* reconnectStrategy(retries) for the delay before its next attempt.       *)
(***************************************************************************)
\* reconnectStrategy: (retries) => Math.min(retries * 50, 1000)
ReconnectStrategy(retries) == IF retries * 50 < 1000 THEN retries * 50 ELSE 1000

\* A caller of connect() and disconnect(): the commands it has yet to issue.
\* Caller 0 is the demo's main(), the others are requests or signal handlers.
ReqIdle == [pc |-> "idle", kind |-> "none", left |-> <<>>, err |-> NoError]

ConnReady ==
    [server |-> "up", socket |-> "ready", retries |-> 0, delay |-> 0,
     cmd |-> [p \in Procs |-> [pc |-> "idle", err |-> NoError]],
     isOpen |-> TRUE, attempts |-> 0, wire |-> <<>>, exit |-> -1,
     req |-> [p \in 0..MaxProcs |-> ReqIdle]]

\* An operation of the manager awaits a command of the client.
CmdCall(p) ==
    /\ conn.cmd[p].pc \in {"idle", "resolved", "rejected"}
    /\ conn' = [conn EXCEPT !.cmd[p] =
                    [pc |-> IF conn.socket = "ready" THEN "sent" ELSE "queued",
                     err |-> NoError]]
    /\ Quiet
    /\ UNCHANGED <<store, clock, cl, gw, sl, bc, batch, timer, tick, st>>

\* The server answers a command written to the socket.
CmdReply(p) ==
    /\ conn.cmd[p].pc = "sent"
    /\ conn.server = "up"
    /\ conn' = [conn EXCEPT !.cmd[p].pc = "resolved"]
    /\ Quiet
    /\ UNCHANGED <<store, clock, cl, gw, sl, bc, batch, timer, tick, st>>

\* The store becomes unreachable: the socket closes, the commands awaiting a
\* reply are rejected, the client starts to reconnect.
StoreDown ==
    /\ conn.server = "up"
    /\ conn' = [conn EXCEPT
                   !.server = "down",
                   !.socket = "reconnecting",
                   !.cmd = [p \in Procs |->
                               IF conn.cmd[p].pc = "sent"
                               THEN [pc |-> "rejected", err |-> "Socket closed unexpectedly"]
                               ELSE conn.cmd[p]]]
    /\ Quiet
    /\ UNCHANGED <<store, clock, cl, gw, sl, bc, batch, timer, tick, st>>

\* An attempt to connect fails while the store is unreachable: the strategy
\* returns a delay (never an error), so the client waits and tries again.
ReconnectAttempt ==
    /\ conn.socket = "reconnecting"
    /\ conn.server = "down"
    /\ conn' = [conn EXCEPT
                   !.socket = "waiting",
                   !.delay = ReconnectStrategy(conn.retries),
                   !.retries = IF conn.retries < MaxRetries THEN conn.retries + 1
                               ELSE conn.retries]
    /\ Quiet
    /\ UNCHANGED <<store, clock, cl, gw, sl, bc, batch, timer, tick, st>>

\* The delay is over: the client makes its next attempt to connect.
ReconnectDelayOver ==
    /\ conn.socket = "waiting"
    /\ conn' = [conn EXCEPT !.socket = "reconnecting"]
    /\ Quiet
    /\ UNCHANGED <<store, clock, cl, gw, sl, bc, batch, timer, tick, st>>

(***************************************************************************)
(* connect() and disconnect(), lines 230-242, and the callers that put     *)
(* them around their commands.  client.isOpen turns true when              *)
(* client.connect() is called and false when client.quit() is called.  A   *)
(* command issued while the client is open joins the client's queue, and   *)
(* the queue is answered in the order of issue once the socket is ready; a *)
(* command issued while the client is not open is rejected.  The reply to  *)
(* QUIT makes the client destroy its socket.                               *)
(***************************************************************************)
\* The commands a caller awaits between its connect and its disconnect:
\* getCacheStats, setWithTTL, getWithRefresh, and the demo's main().
Program(kind) ==
    IF kind = "stats" THEN <<"infoMemory", "infoKeyspace", "infoStats">>
    ELSE IF kind = "set" THEN <<"setEx">>
    ELSE IF kind = "get" THEN <<"get", "expire">>
    ELSE IF kind = "main" THEN <<"bfReserve", "bfAdd", "bfExists", "bfMAdd", "bfMExists">>
    ELSE <<>>

\* What the server does with a command of a program.
WireExec(s, cmd) ==
    IF cmd = "setEx"
    THEN [store |-> SETEX(s, UserU, MaxTTL, JSONstringify("a")), err |-> NoError]
    ELSE IF cmd = "expire"
    THEN [store |-> EXPIRE(s, UserU, MaxTTL), err |-> NoError]
    ELSE IF cmd = "bfReserve"
    THEN [store |-> BFRESERVE(s, BikesModels, 1, 1000),
          err |-> BFRESERVEerr(s, BikesModels, 1, 1000)]
    ELSE IF cmd = "bfAdd"
    THEN [store |-> BFADD(s, BikesModels, "p1"), err |-> BFADDerr(s, BikesModels)]
    ELSE IF cmd = "bfMAdd"
    THEN [store |-> BFMADD(s, BikesModels, <<"p2", "p3", "p4">>, 1),
          err |-> BFADDerr(s, BikesModels)]
    ELSE [store |-> s, err |-> NoError]

\* The caller goes on after an await.  With commands left: the next one, or
\* its rejection when the client is not open.  With none left: disconnect(),
\* which calls client.quit() only on an open client; main() calls
\* client.quit() whatever the client's state, and its catch exits with 1.
Advance(c, p) ==
    LET r == c.req[p] IN
    IF r.left # <<>> /\ c.isOpen
    THEN [c EXCEPT !.wire = Append(@, [p |-> p, cmd |-> Head(r.left)]),
                   !.req[p].left = Tail(r.left),
                   !.req[p].pc = "cmd"]
    ELSE IF c.isOpen
    THEN [c EXCEPT !.isOpen = FALSE,
                   !.wire = Append(@, [p |-> p, cmd |-> "quit"]),
                   !.req[p].pc = "quit"]
    ELSE IF r.left # <<>> \/ r.kind = "main"
    THEN [c EXCEPT !.req[p].pc = "failed",
                   !.req[p].err = ClientClosed,
                   !.exit = IF r.kind = "main" THEN 1 ELSE @]
    ELSE [c EXCEPT !.req[p].pc = "ok",
                   !.exit = IF r.kind = "sigint" THEN 0 ELSE @]

\* (mutation) connect() without the isOpen test
WebRequestAlwaysConnects(p, kind) ==
    /\ conn.req[p].pc \in {"idle", "ok", "failed"}
    /\ conn.attempts < MaxAttempts
    /\ conn' = [conn EXCEPT !.req[p] = [ReqIdle EXCEPT !.kind = kind, !.left = Program(kind),
                                                       !.pc = "connect"],
                            !.isOpen = TRUE,
                            !.attempts = @ + 1,
                            !.socket = IF @ = "closed" THEN "connecting" ELSE @]
    /\ Quiet
    /\ UNCHANGED <<store, clock, cl, gw, sl, bc, batch, timer, tick, st>>

\* A cache request of the web server: await cacheManager.connect(), which
\* calls client.connect() only on a client that is not open, then the
\* request's first command.
WebRequest(p, kind) ==
    /\ conn.req[p].pc \in {"idle", "ok", "failed"}
    /\ conn.isOpen \/ conn.attempts < MaxAttempts
    /\ LET c == [conn EXCEPT !.req[p] = [ReqIdle EXCEPT !.kind = kind, !.left = Program(kind)]]
       IN  conn' = IF conn.isOpen
                   THEN Advance(c, p)
                   ELSE [c EXCEPT !.req[p].pc = "connect",
                                  !.isOpen = TRUE,
                                  !.attempts = @ + 1,
                                  !.socket = IF @ = "closed" THEN "connecting" ELSE @]
    /\ Quiet
    /\ UNCHANGED <<store, clock, cl, gw, sl, bc, batch, timer, tick, st>>

\* The socket is ready: client.connect() returns to its caller.
ConnectDone(p) ==
    /\ conn.exit = -1
    /\ conn.socket = "connecting"
    /\ conn.req[p].pc = "connect"
    /\ conn' = Advance([conn EXCEPT !.socket = "ready"], p)
    /\ Quiet
    /\ UNCHANGED <<store, clock, cl, gw, sl, bc, batch, timer, tick, st>>

\* The server answers the oldest command of the queue, and its caller goes
\* on: a rejection ends the caller in its catch; getWithRefresh sends no
\* expire after a get that found nothing.
ReplyHead ==
    /\ conn.exit = -1
    /\ conn.socket = "ready"
    /\ conn.wire # <<>>
    /\ Head(conn.wire).cmd # "quit"
    /\ LET h == Head(conn.wire)
           x == WireExec(store, h.cmd)
           c == [conn EXCEPT !.wire = Tail(@)]
       IN  /\ store' = x.store
           /\ conn' = IF x.err # NoError
                      THEN [c EXCEPT !.req[h.p].pc = "failed",
                                     !.req[h.p].err = x.err,
                                     !.exit = IF c.req[h.p].kind = "main" THEN 1 ELSE @]
                      ELSE IF h.cmd = "get" /\ ~TruthyStr(GET(store, UserU))
                      THEN Advance([c EXCEPT !.req[h.p].left = <<>>], h.p)
                      ELSE Advance(c, h.p)
    /\ Quiet
    /\ UNCHANGED <<clock, cl, gw, sl, bc, batch, timer, tick, st>>

\* The server answers QUIT: client.quit() destroys the socket and returns.
\* When client.connect() was called in between, the socket destroyed is the
\* old one or the new one, as the library's timing has it.
QuitDone ==
    /\ conn.exit = -1
    /\ conn.socket = "ready"
    /\ conn.wire # <<>>
    /\ Head(conn.wire).cmd = "quit"
    /\ LET h == Head(conn.wire) IN
       \E sock \in IF conn.isOpen THEN {"connecting", "closed"} ELSE {"closed"} :
          conn' = [conn EXCEPT !.wire = Tail(@),
                               !.socket = sock,
                               !.req[h.p].pc = "ok",
                               !.exit = IF conn.req[h.p].kind \in {"main", "sigint"}
                                        THEN 0 ELSE @]
    /\ Quiet
    /\ UNCHANGED <<store, clock, cl, gw, sl, bc, batch, timer, tick, st>>

\* main(), called when the module is loaded: await client.connect().
Main ==
    /\ conn.req[0].pc = "idle"
    /\ ~conn.isOpen
    /\ conn' = [conn EXCEPT !.req[0] = [ReqIdle EXCEPT !.kind = "main", !.left = Program("main"),
                                                       !.pc = "connect"],
                            !.isOpen = TRUE,
                            !.attempts = @ + 1,
                            !.socket = "connecting"]
    /\ Quiet
    /\ UNCHANGED <<store, clock, cl, gw, sl, bc, batch, timer, tick, st>>

\* process.on('SIGINT', ...), handled once main() has reached its first
\* await: client.quit() on an open client, then process.exit(0).
Sigint(p) ==
    /\ conn.exit = -1
    /\ conn.req[0].kind = "main"
    /\ conn.req[p].pc = "idle"
    /\ conn' = Advance([conn EXCEPT !.req[p] = [ReqIdle EXCEPT !.kind = "sigint"]], p)
    /\ Quiet
    /\ UNCHANGED <<store, clock, cl, gw, sl, bc, batch, timer, tick, st>>

(***************************************************************************)
(* setBatch(entries): lines 322-331.  The writes are queued on a           *)
(* MULTI pipeline and run by one EXEC: the server runs the queued commands *)
(* back to back, and a command it refuses when it runs does not undo or    *)
(* stop the others.                                                        *)
(***************************************************************************)
BatchIdle ==
    [pc |-> "idle", entries |-> <<>>, written |-> {}, refused |-> {}, sent |-> 0]

RECURSIVE EXEC(_, _, _)
EXEC(s, entries, i) ==
    IF i > Len(entries) THEN s
    ELSE EXEC(SETEX(s, entries[i].key, entries[i].ttl, JSONstringify(entries[i].value)),
              entries, i + 1)

\* const pipeline = this.client.multi(); for (...) pipeline.setEx(...)
SetBatchCall(p, entries) ==
    /\ batch[p].pc \in {"idle", "done"}
    /\ batch' = [batch EXCEPT ![p] = [BatchIdle EXCEPT !.pc = "queued", !.entries = entries]]
    /\ Quiet
    /\ UNCHANGED <<store, clock, cl, gw, timer, tick, sl, bc, st, conn>>

\* (mutation) an exec that gives every entry the first entry's ttl
SetBatchExecSharedTTL(p) ==
    /\ batch[p].pc = "queued"
    /\ store' = EXEC(store, [i \in 1..Len(batch[p].entries) |->
                                [batch[p].entries[i] EXCEPT !.ttl = batch[p].entries[1].ttl]], 1)
    /\ batch' = [batch EXCEPT ![p] = [@ EXCEPT !.pc = "done", !.sent = @ + 1,
                    !.written = 1..Len(batch[p].entries)]]
    /\ Quiet
    /\ UNCHANGED <<clock, cl, gw, timer, tick, sl, bc, st, conn>>

\* (mutation) an exec that sends the entries one command at a time
SetBatchExecOneByOne(p) ==
    /\ batch[p].pc = "queued"
    /\ LET i == Cardinality(batch[p].written) + 1
           e == batch[p].entries[i]
       IN /\ store' = SETEX(store, e.key, e.ttl, JSONstringify(e.value))
          /\ batch' = [batch EXCEPT ![p] = [@ EXCEPT
                          !.pc = IF i = Len(batch[p].entries) THEN "done" ELSE "queued",
                          !.sent = IF i = 1 THEN 1 ELSE @,
                          !.written = @ \cup {i}]]
    /\ Quiet
    /\ UNCHANGED <<clock, cl, gw, timer, tick, sl, bc, st, conn>>

\* await pipeline.exec();
SetBatchExec(p) ==
    /\ batch[p].pc = "queued"
    /\ store' = EXEC(store, batch[p].entries, 1)
    /\ batch' = [batch EXCEPT ![p] = [@ EXCEPT
                    !.pc = "done",
                    !.sent = @ + 1,
                    !.written = {i \in 1..Len(batch[p].entries) :
                                    SETEXok(batch[p].entries[i].ttl)},
                    !.refused = {i \in 1..Len(batch[p].entries) :
                                    ~SETEXok(batch[p].entries[i].ttl)}]]
    /\ Quiet
    /\ UNCHANGED <<clock, cl, gw, timer, tick, sl, bc, st, conn>>

(***************************************************************************)
(* Other clients of the same store.                                        *)
(***************************************************************************)
\* (mutation) setWithTTL that writes with SET and so attaches no expiry
SetWithTTLNoExpiry(k, v, t) ==
    /\ store' = SET(store, k, JSONstringify(v))
    /\ last' = [op |-> "setWithTTL", key |-> k, ttl |-> t, prev |-> TTL(store, k),
                ok |-> TRUE, sent |-> 1, err |-> NoError]
    /\ UNCHANGED <<clock, cl, gw, batch, timer, tick, sl, bc, st, conn>>

\* setWithTTL and setSlidingCache as one run on store s: the store they
\* leave and the error they raise.
SetWithTTLRun(s, k, v, t) ==
    [store |-> SETEX(s, k, t, JSONstringify(v)),
     err |-> IF SETEXok(t) THEN NoError ELSE SetexInvalidExpire]
SetSlidingCacheRun(s, k, v, t) ==
    [store |-> SETEX(s, k, t, JSONstringify(v)),
     err |-> IF SETEXok(t) THEN NoError ELSE SetexInvalidExpire]

\* setWithTTL(key, value, ttlSeconds): lines 251-254.  The arguments go to
\* SETEX as they are; a refusal by the server is the error the caller gets.
SetWithTTL(k, v, t) ==
    /\ store' = SETEX(store, k, t, JSONstringify(v))
    /\ last' = [op |-> "setWithTTL", key |-> k, ttl |-> t, prev |-> TTL(store, k),
                ok |-> SETEXok(t), sent |-> 1,
                err |-> IF SETEXok(t) THEN NoError ELSE SetexInvalidExpire]
    /\ UNCHANGED <<clock, cl, gw, batch, timer, tick, sl, bc, st, conn>>

ClientSetEx(k, t, str) ==
    /\ store' = SETEX(store, k, t, str)
    /\ Quiet
    /\ UNCHANGED <<clock, cl, gw, batch, timer, tick, sl, bc, st, conn>>

ClientSet(k, str) ==
    /\ store' = SET(store, k, str)
    /\ Quiet
    /\ UNCHANGED <<clock, cl, gw, batch, timer, tick, sl, bc, st, conn>>

ClientExpire(k, t) ==
    /\ Exists(store, k)
    /\ store' = EXPIRE(store, k, t)
    /\ Quiet
    /\ UNCHANGED <<clock, cl, gw, batch, timer, tick, sl, bc, st, conn>>

ClientDel(k) ==
    /\ Exists(store, k)
    /\ store' = DEL(store, k)
    /\ Quiet
    /\ UNCHANGED <<clock, cl, gw, batch, timer, tick, sl, bc, st, conn>>

\* The caller of a creation whose expire failed sends the expire for that
\* filter again: client.expire(name, seconds).
ReissueExpire(t) ==
    /\ bc.pc = "done"
    /\ bc.err = ClientClosed
    /\ ClientExpire(bc.name, t)

\* Time passes on the server: d seconds.
Elapse(d) ==
    /\ \E k \in Keys : store[k].ttl > 0
    /\ store' = Age(store, d)
    /\ Quiet
    /\ UNCHANGED <<clock, cl, gw, batch, timer, tick, sl, bc, st, conn>>

\* Time passes on the server, a bounded number of times.
ElapseClocked(d) ==
    /\ clock < MaxClock
    /\ \E k \in Keys : store[k].ttl > 0
    /\ clock' = clock + 1
    /\ store' = Age(store, d)
    /\ Quiet
    /\ UNCHANGED <<cl, gw, batch, timer, tick, sl, bc, st, conn>>

(***************************************************************************)
(* startAutoCleanup(intervalMs): lines 397-424.  setInterval runs the      *)
(* async callback every intervalMs whether or not an earlier run has       *)
(* finished; the runs in flight are the slots of `tick`.  clearInterval on *)
(* the returned handle is the cancellation (lines 510-511).                *)
(***************************************************************************)
TickIdle == [pc |-> "idle", skeys |-> <<>>, sidx |-> 0, filled |-> {}]

InFlight(p) == tick[p].pc # "idle"
TickKey(p) == tick[p].skeys[tick[p].sidx]
Saturate(n) == IF n < MaxFailed THEN n + 1 ELSE MaxFailed

\* for (const key of sessionKeys): the next key's TTL query, or on to getCacheStats.
TickAdvance(t) ==
    IF t.sidx < Len(t.skeys)
    THEN [t EXCEPT !.pc = "sttl", !.sidx = t.sidx + 1]
    ELSE [t EXCEPT !.pc = "stats", !.skeys = <<>>, !.sidx = 0]

\* const interval = setInterval(async () => {...}, intervalMs); return interval;
StartAutoCleanup ==
    /\ timer.st = "none"
    /\ timer' = [timer EXCEPT !.st = "active"]
    /\ Quiet
    /\ UNCHANGED <<store, clock, cl, gw, batch, tick, sl, bc, st, conn>>

\* (mutation) a cancellation that also abandons the runs in flight
ClearIntervalAborts ==
    /\ timer.st = "active"
    /\ timer' = [timer EXCEPT !.st = "cleared", !.inflight = {p \in Procs : InFlight(p)}]
    /\ tick' = [p \in Procs |-> TickIdle]
    /\ cl' = [p \in Procs |-> ClIdle]
    /\ Quiet
    /\ UNCHANGED <<store, clock, gw, batch, sl, bc, st, conn>>

\* clearInterval(cleanupInterval)
ClearInterval ==
    /\ timer.st = "active"
    /\ timer' = [timer EXCEPT !.st = "cleared", !.inflight = {p \in Procs : InFlight(p)}]
    /\ Quiet
    /\ UNCHANGED <<store, clock, cl, gw, batch, tick, sl, bc, st, conn>>

\* (mutation) a callback that starts with the session keys, without the purge
TimerFireSkipsPurge(p) ==
    /\ timer.st = "active"
    /\ ~InFlight(p)
    /\ \A q \in Procs : q < p => InFlight(q)
    /\ tick' = [tick EXCEPT ![p] = [TickIdle EXCEPT !.pc = "skeys"]]
    /\ timer' = [timer EXCEPT !.firedAfter = timer.failed]
    /\ Quiet
    /\ UNCHANGED <<store, clock, cl, gw, batch, sl, bc, st, conn>>

\* The interval elapses: the callback starts in a free slot and calls
\* this.cleanup('cache:temp:*').
TimerFire(p) ==
    /\ timer.st = "active"
    /\ ~InFlight(p)
    /\ \A q \in Procs : q < p => InFlight(q)
    /\ tick' = [tick EXCEPT ![p] = [TickIdle EXCEPT !.pc = "purge"]]
    /\ cl' = [cl EXCEPT ![p] = [ClIdle EXCEPT !.pc = "keys", !.pattern = TempPattern]]
    /\ timer' = [timer EXCEPT !.firedAfter = timer.failed]
    /\ Quiet
    /\ UNCHANGED <<store, clock, gw, batch, sl, bc, st, conn>>

\* (mutation) a backfill that goes over every key under 'cache:'
TickSessionKeysAllCache(p) ==
    /\ tick[p].pc = "skeys"
    /\ \E q \in Orders(KEYS(store, CachePattern)) :
          tick' = [tick EXCEPT ![p] = TickAdvance([@ EXCEPT !.skeys = q])]
    /\ Quiet
    /\ UNCHANGED <<store, clock, cl, gw, batch, timer, sl, bc, st, conn>>

\* const sessionKeys = await this.client.keys('cache:session:*');
TickSessionKeys(p) ==
    /\ tick[p].pc = "skeys"
    /\ \E q \in Orders(KEYS(store, SessionPattern)) :
          tick' = [tick EXCEPT ![p] = TickAdvance([@ EXCEPT !.skeys = q])]
    /\ Quiet
    /\ UNCHANGED <<store, clock, cl, gw, batch, timer, sl, bc, st, conn>>

\* const ttl = await this.client.ttl(key); if (ttl === -1)
TickSessionTtl(p) ==
    /\ tick[p].pc = "sttl"
    /\ tick' = [tick EXCEPT ![p] =
                  IF TTL(store, TickKey(p)) = NoExpiry
                  THEN [@ EXCEPT !.pc = "sexpire", !.filled = @ \cup {TickKey(p)}]
                  ELSE TickAdvance(@)]
    /\ Quiet
    /\ UNCHANGED <<store, clock, cl, gw, batch, timer, sl, bc, st, conn>>

\* (mutation) the backfill passing the hour in milliseconds
TickSessionExpireMillis(p) ==
    /\ tick[p].pc = "sexpire"
    /\ store' = EXPIRE(store, TickKey(p), SessionDefaultTTL * 1000)
    /\ tick' = [tick EXCEPT ![p] = TickAdvance(@)]
    /\ last' = [NoOp EXCEPT !.op = "backfill", !.key = TickKey(p),
                            !.ttl = SessionDefaultTTL, !.sent = 1]
    /\ UNCHANGED <<clock, cl, gw, batch, timer, sl, bc, st, conn>>

\* await this.client.expire(key, 3600);
TickSessionExpire(p) ==
    /\ tick[p].pc = "sexpire"
    /\ store' = EXPIRE(store, TickKey(p), SessionDefaultTTL)
    /\ tick' = [tick EXCEPT ![p] = TickAdvance(@)]
    /\ last' = [NoOp EXCEPT !.op = "backfill", !.key = TickKey(p),
                            !.ttl = SessionDefaultTTL, !.sent = 1]
    /\ UNCHANGED <<clock, cl, gw, batch, timer, sl, bc, st, conn>>

\* const stats = await this.getCacheStats(); logger.debug(...)  (read-only)
TickStats(p) ==
    /\ tick[p].pc = "stats"
    /\ tick' = [tick EXCEPT ![p] = TickIdle]
    /\ timer' = [timer EXCEPT !.failed = 0]
    /\ Quiet
    /\ UNCHANGED <<store, clock, cl, gw, batch, sl, bc, st, conn>>

\* (mutation) a callback without the try/catch: the rejection is unhandled and
\* ends the process, and with it the timer
TickFailUncaught(p) ==
    /\ InFlight(p)
    /\ tick' = [tick EXCEPT ![p] = TickIdle]
    /\ cl' = [cl EXCEPT ![p] = ClIdle]
    /\ timer' = [timer EXCEPT !.st = "crashed", !.failed = Saturate(timer.failed)]
    /\ Quiet
    /\ UNCHANGED <<store, clock, gw, batch, sl, bc, st, conn>>

\* The store call the run is waiting for rejects:
\* catch (error) { logger.error(...) } ends this run only.
TickFail(p) ==
    /\ InFlight(p)
    /\ tick' = [tick EXCEPT ![p] = TickIdle]
    /\ cl' = [cl EXCEPT ![p] = ClIdle]
    /\ timer' = [timer EXCEPT !.failed = Saturate(timer.failed)]
    /\ Quiet
    /\ UNCHANGED <<store, clock, gw, batch, sl, bc, st, conn>>

\* The next store call of the run in slot p takes effect.
TickStep(p) ==
    \/ CleanupKeys(p)
    \/ CleanupTtl(p)
    \/ CleanupDel(p)
    \/ TickSessionKeys(p)
    \/ TickSessionTtl(p)
    \/ TickSessionExpire(p)
    \/ TickStats(p)

(***************************************************************************)
(* Initial state shared by the specifications.                             *)
(***************************************************************************)

\* The manager has just been constructed and the store holds nothing.
InitEmpty ==
    /\ clock = 0
    /\ last = NoOp
    /\ cl = [p \in Procs |-> ClIdle]
    /\ gw = GwIdle
    /\ sl = SlIdle
    /\ bc = BcIdle
    /\ batch = [p \in Procs |-> BatchIdle]
    /\ st = StIdle
    /\ conn = ConnReady
    /\ timer = [st |-> "none", failed |-> 0, firedAfter |-> 0, inflight |-> {}]
    /\ tick = [p \in Procs |-> TickIdle]
    /\ store = EmptyStore

(***************************************************************************)
(* SpecPurge: concurrent cleanup calls among ordinary traffic.             *)
(***************************************************************************)
TTLs == 1..MaxTTL

NextPurge ==
    \/ \E p \in Procs, pat \in {TempPattern} : CleanupCall(p, pat)
    \/ \E p \in Procs : CleanupKeys(p)
    \/ \E p \in Procs : CleanupTtl(p)
    \/ \E p \in Procs : CleanupDel(p)
    \/ \E k \in {TempA}, t \in TTLs : ClientSetEx(k, t, "session-data")
    \/ \E k \in {TempA, TempB} : ClientSet(k, "session-data")
    \/ \E k \in {TempA}, t \in TTLs : ClientExpire(k, t)
    \/ \E k \in {TempA} : ClientDel(k)
    \/ Elapse(1)

SpecPurge == InitEmpty /\ [][NextPurge]_vars

(***************************************************************************)
(* Claims about cleanup under concurrency (SpecPurge).                     *)
(***************************************************************************)
\* C1 (as stated): cleanup never deletes a key whose TTL at the moment of the
\* delete is a positive countdown.
C1_NeverDeletesLiveKey == \A p \in Procs : ~cl[p].liveDel

\* C1 (amended): cleanup issues a delete only for a key that its own TTL check
\* immediately before reported as having no expiry, under a pattern that holds
\* the marker; the TTL at the moment of the delete may differ.
C1_DeleteFollowsNoExpiryCheck ==
    \A p \in Procs :
        cl[p].pc = "del" => cl[p].seen = NoExpiry /\ IncludesTemp(cl[p].pattern)

\* C1 witness: a delete is pending for a key that gained a TTL after the check.
C1_Witness ==
    \E p \in Procs : cl[p].pc = "del" /\ cl[p].seen = NoExpiry /\ TTL(store, ClKey(p)) > 0

\* C2: once the TTL check has passed, the only step cleanup takes for that key
\* is the delete, which removes the key and counts it whatever its TTL is by
\* then (no re-check).
C2_DeleteWithoutRecheck ==
    [][\A p \in Procs :
         (cl[p].pc = "del" /\ cl'[p] # cl[p]) =>
            /\ ~Exists(store', ClKey(p))
            /\ cl'[p].deletedCount = cl[p].deletedCount + 1
            /\ (TTL(store, ClKey(p)) > 0 => cl'[p].liveDel)]_vars

\* C2 witness: a key with a positive TTL was removed by cleanup and counted.
C2_Witness ==
    \E p \in Procs : cl[p].pc = "done" /\ cl[p].liveDel /\ cl[p].result > 0 /\ cl[p].removed > 0

\* C3: the number cleanup returns is the number of keys its deletes removed.
C3_CountIsKeysRemoved ==
    \A p \in Procs : cl[p].pc = "done" => cl[p].result = cl[p].removed

(***************************************************************************)
(* SpecRefresh: setWithTTL and getWithRefresh among ordinary traffic.      *)
(***************************************************************************)
TTLArgs == 0..MaxTTL

NextRefresh ==
    \/ \E k \in {UserU}, t \in TTLArgs : GetWithRefreshCall(k, t)
    \/ GwGet
    \/ GwExpire
    \/ \E k \in {UserU}, v \in Values, t \in TTLArgs : SetWithTTL(k, v, t)
    \/ \E k \in {UserU}, str \in RawStrings : ClientSet(k, str)
    \/ \E k \in {UserU} : ClientDel(k)
    \/ Elapse(1)

SpecRefresh == InitEmpty /\ [][NextRefresh]_vars

(***************************************************************************)
(* Claims about setWithTTL and getWithRefresh (SpecRefresh).               *)
(***************************************************************************)
\* C4: getWithRefresh reads and re-applies the TTL as one atomic step: the TTL
\* is never applied to a value other than the one the call returns.
C4_RefreshAppliesToValueRead ==
    (gw.pc = "done" /\ gw.expired) => gw.appliedTo = gw.value

\* C29: a getWithRefresh that does not return a value ends in one of the
\* kinds InvalidArgument, NotFound, AlreadyExists, StoreUnavailable, also on
\* a key whose value this component did not write.
C29_ErrorsAreClassified ==
    (gw.pc = "done" /\ gw.threw)
        => gw.result \in {"InvalidArgument", "NotFound", "AlreadyExists", "StoreUnavailable"}

\* C35: the step on which getWithRefresh ends in an error leaves the store
\* as it was; a call that fails to decode the value does not refresh the TTL.
C35_FailedReadLeavesStore ==
    [][(gw.pc \in {"get", "expire"} /\ gw'.pc = "done" /\ gw'.threw) => store' = store]_vars

\* C10: immediately after setWithTTL(k, v, ttlSeconds) with ttlSeconds > 0,
\* TTL(k) is greater than 0 and at most ttlSeconds, whatever k held before.
C10_TTLAfterSetWithTTL ==
    (last.op = "setWithTTL" /\ last.ttl > 0) =>
        /\ TTL(store, last.key) > 0
        /\ TTL(store, last.key) <= last.ttl
        /\ GET(store, last.key) \in JSONTexts

\* C10 witness: setWithTTL has just overwritten a key that had a longer TTL.
C10_Witness ==
    /\ last.op = "setWithTTL"
    /\ last.ttl > 0
    /\ last.prev > last.ttl
    /\ TTL(store, last.key) = last.ttl

\* C11: when getWithRefresh(k, t) returns after its GET found k present, the
\* TTL of k is exactly t, for every stored value, previous TTL and t.
C11_RefreshSetsExactTTL ==
    [][(gw.pc # "done" /\ gw'.pc = "done" /\ gw'.value # Nil)
          => TTL(store', gw'.key) = gw'.refreshTTL]_vars

\* C12: getWithRefresh(key, t) whose GET finds the key absent returns null
\* without throwing, sends no EXPIRE and leaves the store as it is, so the
\* key stays absent.
C12_AbsentKeyReadsNull ==
    [][(gw.pc = "get" /\ gw'.pc # "get" /\ ~Exists(store, gw.key))
          => /\ gw'.pc = "done"
             /\ gw'.result = Nil
             /\ ~gw'.threw
             /\ ~gw'.expired
             /\ store' = store]_vars

\* C12 witness: a call with a refresh value has returned null for a key that
\* is absent after the call as well.
C12_Witness ==
    /\ gw.pc = "done"
    /\ gw.refreshTTL > 0
    /\ gw.value = Nil
    /\ gw.result = Nil
    /\ ~Exists(store, gw.key)

\* C13: on every store, for every key, value and window, getSlidingCache
\* returns what getWithRefresh returns and leaves the same store, and
\* setSlidingCache has the effect of setWithTTL.
C13_SlidingEqualsRefresh ==
    \A k \in {UserU}, w \in TTLArgs :
        /\ GetSlidingCacheRun(store, k, w) = GetWithRefreshRun(store, k, w)
        /\ \A v \in Values :
              SetSlidingCacheRun(store, k, v, w) = SetWithTTLRun(store, k, v, w)

\* C15: setWithTTL with ttlSeconds <= 0 is rejected by the manager itself with
\* InvalidArgument: no command is sent to the store, and the key is as before.
C15_NonPositiveTTLRejectedLocally ==
    (last.op = "setWithTTL" /\ last.ttl <= 0) =>
        /\ last.err = "InvalidArgument"
        /\ last.sent = 0
        /\ TTL(store, last.key) = last.prev

(***************************************************************************)
(* SpecSliding: one key written by setSlidingCache and read by             *)
(* getSlidingCache while time passes; no other client touches the key.     *)
(***************************************************************************)

NextSliding ==
    \/ \E k \in {SlidingW}, v \in Values, t \in TTLArgs : SetSlidingCache(k, v, t)
    \/ \E k \in {SlidingW}, t \in TTLArgs : GetSlidingCacheCall(k, t)
    \/ SlGet
    \/ SlExpire
    \/ ElapseClocked(1)

SpecSliding == InitEmpty /\ [][NextSliding]_vars

\* C14: a key written by setSlidingCache(k, v, w) is present whenever no
\* read is in flight, every getSlidingCache(k, w) since the write came less
\* than w seconds after the write or read before it, and less than w
\* seconds have passed since the last of them.
C14_PresentWhileReadInTime ==
    (sl.pc \in {"idle", "done"} /\ sl.fresh /\ clock - sl.touched < sl.window)
        => Exists(store, sl.key)

\* C36: a step of getSlidingCache changes no stored value and no TTL of a
\* key other than the one read, and the key it reads is still there after it.
C36_ReadKeepsKeysAndValues ==
    [][(sl.pc \in {"get", "expire"} /\ sl' # sl)
          => \A k \in Keys :
                /\ k # sl.key => store'[k] = store[k]
                /\ Exists(store, k) => Exists(store', k) /\ GET(store', k) = GET(store, k)]_vars

(***************************************************************************)
(* SpecBloom: the Bloom filter calls on one name, while another client     *)
(* deletes the key and time passes.                                        *)
(***************************************************************************)
ItemLists ==
    {<<x>> : x \in Items} \cup {q \in Items \X Items : q[1] # q[2]}
        \cup {<<"p1", "p2", "p3">>}

NextBloom ==
    \/ \E n \in {BloomP}, e \in {0, 1, 100}, c \in {0, 1, 2}, t \in TTLArgs :
          CreateBloomCacheCall(n, e, c, t)
    \/ \E n \in {BloomP}, e \in {0, 1, 100}, c \in {0, 1, 2}, t \in TTLArgs :
          ApiBloomCreateCall(n, e, c, t)
    \/ BcReserve
    \/ BcExpire
    \/ BcExpireFail
    \/ \E n \in {BloomP}, x \in Items, t \in TTLArgs : AddToBloomCacheCall(n, x, t)
    \/ \E n \in {BloomP}, xs \in ItemLists, t \in TTLArgs : ApiBloomAddCall(n, xs, t)
    \/ BcAdd
    \/ \E n \in {BloomP}, xs \in ItemLists, many \in BOOLEAN :
          ApiBloomCheckCall(n, xs, many)
    \/ BcExists
    \/ \E n \in {BloomP} : ClientDel(n)
    \/ Elapse(1)

SpecBloom == InitEmpty /\ [][NextBloom]_vars

(***************************************************************************)
(* Claims about the Bloom filter calls (SpecBloom).                        *)
(***************************************************************************)
\* C16: creating a filter on a name that holds a filter fails: the call ends
\* with the store's error (item exists, for valid parameters), sends no
\* expire, and the filter keeps its contents, parameters and TTL.
C16_CreateOnExistingFails ==
    [][(bc.pc = "reserve" /\ bc'.pc # "reserve" /\ IsFilter(store, bc.name))
          => /\ bc'.pc = "done"
             /\ bc'.sent = 1
             /\ bc'.err # NoError
             /\ (0 < bc.errorRate /\ bc.errorRate < 100 /\ bc.capacity >= 1)
                   => bc'.err = BfItemExists
             /\ store' = store]_vars

\* C16 witness: createBloomCache with a TTL was refused on a filter that
\* holds items, and the filter does not have the TTL of the refused call.
C16_Witness ==
    /\ bc.pc = "done"
    /\ bc.op = "createBloomCache"
    /\ bc.err = BfItemExists
    /\ bc.ttl > 0
    /\ IsFilter(store, bc.name)
    /\ store[bc.name].filter.members # {}
    /\ TTL(store, bc.name) # bc.ttl

\* C18: creating a filter with an error rate outside (0, 1) or a capacity
\* below 1 is rejected with InvalidArgument before any command is sent to
\* the store.
C18_BadParametersRejectedLocally ==
    (/\ bc.pc = "done"
     /\ bc.op \in {"createBloomCache", "apiBloomCreate"}
     /\ (bc.errorRate <= 0 \/ bc.errorRate >= 100 \/ bc.capacity < 1))
        => (bc.err = "InvalidArgument" /\ bc.sent = 0)

\* C19: an add or a check on a name that holds no key fails with NotFound
\* and the name holds no key afterwards.
C19_NoFilterNoCreation ==
    [][(bc.pc \in {"add", "exists"} /\ bc'.pc # bc.pc /\ ~Exists(store, bc.name))
          => /\ bc'.pc = "done"
             /\ bc'.err = "NotFound"
             /\ ~Exists(store', bc.name)]_vars

\* C20: no false negatives.  Every item added to a filter since it was
\* created is reported present by the filter, and a check answers true for
\* each such item, also when more items were added than the capacity.
C20_NoFalseNegatives ==
    /\ [](\A n \in {BloomP}, x \in Items :
            (IsFilter(store, n) /\ x \in store[n].filter.members)
                => BFEXISTS(store, n, x))
    /\ [][(bc.pc = "exists" /\ bc'.pc = "done" /\ bc'.err = NoError)
             => \A i \in 1..Len(bc.items) :
                   bc.items[i] \in store[bc.name].filter.members => bc'.results[i]]_vars

\* C20 witness: a check of two items has answered true for both on a filter
\* of capacity 1 that took three items and grew a second array.
C20_Witness ==
    /\ bc.pc = "done"
    /\ bc.op = "apiBloomCheck"
    /\ bc.results = <<TRUE, TRUE>>
    /\ IsFilter(store, bc.name)
    /\ store[bc.name].filter.capacity = 1
    /\ Cardinality(store[bc.name].filter.members) = 3
    /\ Len(store[bc.name].filter.layers) > 1

\* C21: bf.mAdd and bf.mExists answer with one boolean per item, in the order
\* of the items: the i-th answer of a check is what the filter says of the
\* i-th item, an item answered as newly added was not in the filter before,
\* and a check of the same items right after an add of many answers true
\* for every one of them.
C21_ManyAnswersByPosition ==
    /\ [][(bc.pc = "exists" /\ bc'.pc = "done" /\ bc'.err = NoError)
             => /\ Len(bc'.results) = Len(bc.items)
                /\ \A i \in 1..Len(bc.items) :
                      bc'.results[i] = BFEXISTS(store, bc.name, bc.items[i])]_vars
    /\ [][(bc.pc = "add" /\ bc.many /\ bc'.pc # "add" /\ bc'.err = NoError)
             => /\ Len(bc'.results) = Len(bc.items)
                /\ \A i \in 1..Len(bc.items) :
                      /\ bc'.results[i] => ~BFEXISTS(store, bc.name, bc.items[i])
                      /\ BFMEXISTS(store', bc.name, bc.items)[i]]_vars

\* C21 witness: a check of three items answered true, false, true on a filter
\* that was given the first and the third.
C21_Witness ==
    /\ bc.pc = "done"
    /\ bc.op = "apiBloomCheck"
    /\ bc.items = <<"p1", "p2", "p3">>
    /\ bc.results = <<TRUE, FALSE, TRUE>>
    /\ store[bc.name].filter.members = {"p1", "p3"}

\* C22: when an add on an existing filter returns without error, the TTL of
\* the filter is the ttlSeconds of the call, and without ttlSeconds it is
\* what it was before the add.
C22_AddLeavesGivenTTL ==
    [][(/\ bc.op \in {"addToBloomCache", "apiBloomAdd"}
        /\ bc.pc \in {"add", "expire"}
        /\ bc'.pc = "done"
        /\ bc'.err = NoError
        /\ bc'.held)
          => IF bc.ttl > 0
             THEN TTL(store', bc.name) = bc.ttl
             ELSE TTL(store', bc.name) = TTL(store, bc.name)]_vars

(***************************************************************************)
(* SpecBatch: setBatch among ordinary traffic.                             *)
(***************************************************************************)
BatchInputs ==
    {<<[key |-> UserU, value |-> "a", ttl |-> t1],
       [key |-> k2, value |-> "b", ttl |-> MaxTTL]>> : t1 \in TTLArgs, k2 \in {UserU, SessionS}}

NextBatch ==
    \/ \E p \in Procs, entries \in BatchInputs : SetBatchCall(p, entries)
    \/ \E p \in Procs : SetBatchExec(p)
    \/ \E k \in {UserU, SessionS} : ClientSet(k, "session-data")
    \/ \E k \in {UserU, SessionS} : ClientDel(k)
    \/ Elapse(1)

SpecBatch == InitEmpty /\ [][NextBatch]_vars

\* C5: setBatch is applied as one unit: either every entry of the batch is
\* written or, when the batch is rejected, none is.
C5_BatchAllOrNothing ==
    \A p \in Procs :
        batch[p].pc = "done" =>
            \/ batch[p].written = 1..Len(batch[p].entries)
            \/ batch[p].written = {}

\* C23 (as stated): right after a setBatch with positive ttls completes,
\* every entry's key holds that entry's value with a TTL in (0, ttl_i].
C23_EveryEntryHeld ==
    [][\A p \in Procs :
          (batch[p].pc = "queued" /\ batch'[p].pc = "done" /\ (\A i \in 1..Len(batch[p].entries) : batch[p].entries[i].ttl > 0))
            => \A i \in 1..Len(batch[p].entries) :
                  /\ GET(store', batch[p].entries[i].key)
                       = JSONstringify(batch[p].entries[i].value)
                  /\ TTL(store', batch[p].entries[i].key) \in 1..batch[p].entries[i].ttl]_vars

\* C23 (amended): right after a setBatch with positive ttls completes, every
\* key of the batch holds the value and the TTL of the last entry that names
\* it, whatever the other entries' ttls are.
C23_LastEntryPerKeyHeld ==
    [][\A p \in Procs :
          (batch[p].pc = "queued" /\ batch'[p].pc = "done" /\ (\A i \in 1..Len(batch[p].entries) : batch[p].entries[i].ttl > 0))
            => \A i \in 1..Len(batch[p].entries) :
                  (\A j \in (i + 1)..Len(batch[p].entries) :
                        batch[p].entries[j].key # batch[p].entries[i].key)
                    => /\ GET(store', batch[p].entries[i].key)
                            = JSONstringify(batch[p].entries[i].value)
                       /\ TTL(store', batch[p].entries[i].key) = batch[p].entries[i].ttl]_vars

C23_Witness ==
    \E p \in Procs :
        /\ batch[p].pc = "done"
        /\ batch[p].entries[1].ttl = 1
        /\ batch[p].entries[2].ttl = MaxTTL
        /\ batch[p].entries[2].key = SessionS
        /\ TTL(store, UserU) = 1
        /\ TTL(store, SessionS) = MaxTTL
        /\ GET(store, UserU) = JSONstringify("a")
        /\ GET(store, SessionS) = JSONstringify("b")

(***************************************************************************)
(* SpecBatchPair: every caller runs one setBatch, concurrently, on a store *)
(* nobody else writes to.                                                  *)
(***************************************************************************)
PairInputs ==
    {<<[key |-> UserU, value |-> v, ttl |-> t]>> : v \in Values, t \in TTLs}
    \cup {<<[key |-> UserU, value |-> v, ttl |-> t],
             [key |-> SessionS, value |-> v, ttl |-> t]>> : v \in Values, t \in TTLs}

NextBatchPair ==
    \/ \E p \in Procs, entries \in PairInputs :
          batch[p].pc = "idle" /\ SetBatchCall(p, entries)
    \/ \E p \in Procs : SetBatchExec(p)

SpecBatchPair == InitEmpty /\ [][NextBatchPair]_vars

\* The callers' setBatch calls run one after the other in the given order.
RECURSIVE SerialRun(_, _, _)
SerialRun(s, order, i) ==
    IF i > Cardinality(Procs) THEN s
    ELSE SerialRun(EXEC(s, batch[order[i]].entries, 1), order, i + 1)

\* C24: each setBatch reaches the store as one batch, and when concurrent
\* setBatch calls have all completed the store is what running them one
\* after the other, in some order, would have left.
C24_ConcurrentBatchesSerial ==
    (\A p \in Procs : batch[p].pc = "done")
        => /\ \A p \in Procs : batch[p].sent = 1
           /\ \E order \in Orders(Procs) : store = SerialRun(EmptyStore, order, 1)

C24_Witness ==
    /\ \A p \in Procs : batch[p].pc = "done" /\ Len(batch[p].entries) = 2
    /\ batch[1].entries[1].value # batch[2].entries[1].value
    /\ GET(store, UserU) = JSONstringify(batch[1].entries[1].value)
    /\ GET(store, SessionS) = JSONstringify(batch[1].entries[2].value)

(***************************************************************************)
(* SpecCleanupSeq: cleanup("cache:temp:*") twice in a row, the second call *)
(* made when the first has returned, on a store that holds five temp keys  *)
(* without TTL and that nobody else touches.                               *)
(***************************************************************************)

SeqEntries(k) ==
    {AbsentEntry,
     SET(EmptyStore, k, "session-data")[k],
     SETEX(EmptyStore, k, MaxTTL, JSONstringify("a"))[k]}

NextCleanupSeq ==
    \/ cl[1].pc = "idle" /\ CleanupCall(1, TempPattern)
    \/ cl[1].pc = "done" /\ cl[2].pc = "idle" /\ CleanupCall(2, TempPattern)
    \/ \E p \in Procs : CleanupKeys(p)
    \/ \E p \in Procs : CleanupTtl(p)
    \/ \E p \in Procs : CleanupDel(p)

SpecCleanupSeq ==
    /\ clock = 0
    /\ last = NoOp
    /\ cl = [p \in Procs |-> ClIdle]
    /\ gw = GwIdle
    /\ sl = SlIdle
    /\ bc = BcIdle
    /\ batch = [p \in Procs |-> BatchIdle]
    /\ st = StIdle
    /\ conn = ConnReady
    /\ timer = [st |-> "none", failed |-> 0, firedAfter |-> 0, inflight |-> {}]
    /\ tick = [p \in Procs |-> TickIdle]
    /\ store \in
         {[k \in Keys |->
             IF k \in {TempA, TempB, TempC, TempD, TempE} THEN SET(EmptyStore, k, "temporary-data")[k]
             ELSE IF k = UserU THEN u
             ELSE IF k = SessionS THEN w
             ELSE AbsentEntry] : u \in SeqEntries(UserU), w \in SeqEntries(SessionS)}
    /\ [][NextCleanupSeq]_vars

\* C25: from five TTL-less keys under "cache:temp:*" and no other activity,
\* cleanup("cache:temp:*") deletes exactly those five keys and returns 5, and
\* the cleanup that follows deletes nothing and returns 0.
C25_FiveThenNone ==
    /\ [](cl[1].pc = "done"
            => /\ cl[1].result = 5
               /\ cl[1].removed = 5
               /\ \A k \in {TempA, TempB, TempC, TempD, TempE} : ~Exists(store, k))
    /\ [](cl[2].pc = "done" => cl[2].result = 0 /\ cl[2].removed = 0)
    /\ [][\A k \in Keys \ {TempA, TempB, TempC, TempD, TempE} : store'[k] = store[k]]_vars
    /\ [][cl[1].pc = "done" => store' = store]_vars

C25_Witness ==
    /\ cl[1].pc = "done" /\ cl[1].result = 5
    /\ cl[2].pc = "done" /\ cl[2].result = 0
    /\ TTL(store, UserU) = NoExpiry
    /\ TTL(store, SessionS) = MaxTTL

\* C26: a cleanup whose KEYS reply is empty returns 0 from that very step:
\* it goes on to no TTL query and no delete, and the store is as it was.
C26_NoMatchReturnsZero ==
    [][\A p \in Procs :
          (cl[p].pc = "keys" /\ cl'[p] # cl[p] /\ KEYS(store, cl[p].pattern) = {})
            => /\ cl'[p].pc = "done"
               /\ cl'[p].result = 0
               /\ cl'[p].deletedCount = 0
               /\ cl'[p].removed = 0
               /\ store' = store]_vars

C26_Witness ==
    /\ cl[2].pc = "done"
    /\ cl[2].pattern = TempPattern
    /\ cl[2].result = 0
    /\ KEYS(store, TempPattern) = {}
    /\ Exists(store, UserU)

(***************************************************************************)
(* SpecCleanupAlone: one cleanup call or one direct DELETE request at a    *)
(* time, on a store that nobody else touches and that holds temp, session  *)
(* and user keys with and without TTL.                                     *)
(***************************************************************************)
NextCleanupAlone ==
    \/ \E p \in Procs, pat \in {TempPattern, SessionPattern, CachePattern} :
          /\ \A q \in Procs : cl[q].pc \in {"idle", "done"}
          /\ CleanupCall(p, pat) \/ ApiCacheDeleteKeys(p, pat)
    \/ \E p \in Procs : CleanupKeys(p)
    \/ \E p \in Procs : CleanupTtl(p)
    \/ \E p \in Procs : CleanupDel(p)
    \/ \E p \in Procs : ApiCacheDeleteDel(p)

SpecCleanupAlone ==
    /\ clock = 0
    /\ last = NoOp
    /\ cl = [p \in Procs |-> ClIdle]
    /\ gw = GwIdle
    /\ sl = SlIdle
    /\ bc = BcIdle
    /\ batch = [p \in Procs |-> BatchIdle]
    /\ st = StIdle
    /\ conn = ConnReady
    /\ timer = [st |-> "none", failed |-> 0, firedAfter |-> 0, inflight |-> {}]
    /\ tick = [p \in Procs |-> TickIdle]
    /\ store \in {[k \in Keys |->
                      IF k \in {TempA, SessionS, UserU}
                      THEN e[k] ELSE AbsentEntry] :
                   e \in [{TempA, SessionS, UserU} ->
                             {AbsentEntry, SET(EmptyStore, UserU, "session-data")[UserU],
                              SETEX(EmptyStore, UserU, MaxTTL, JSONstringify("a"))[UserU]}]}
    /\ [][NextCleanupAlone]_vars

C39_DeleteHandlersAgree ==
    [][\A p \in Procs :
          (cl'[p].op = "apiCacheDelete" /\ cl'[p].pc = "done" /\ cl'[p] # cl[p])
            => \A q \in Orders(KEYS(store, cl'[p].pattern)) :
                  /\ store' = CleanupRun(store, cl'[p].pattern, q, 1, 0).store
                  /\ cl'[p].result = CleanupRun(store, cl'[p].pattern, q, 1, 0).deletedCount]_vars

(***************************************************************************)
(* SpecStats: getCacheStats among ordinary traffic; any of its three INFO  *)
(* queries may be rejected.                                                *)
(***************************************************************************)

NextStats ==
    \/ GetCacheStatsCall
    \/ StInfo
    \/ StInfoFail
    \/ \E k \in {UserU, TempA} : ClientSet(k, "session-data")
    \/ \E k \in {UserU, TempA}, t \in TTLs : ClientSetEx(k, t, "session-data")
    \/ \E k \in {UserU, TempA} : ClientDel(k)
    \/ Elapse(1)

SpecStats == InitEmpty /\ [][NextStats]_vars

\* C27: no step of getCacheStats, answered or rejected, changes a key, a
\* value or a TTL of the store.
C27_StatsLeavesStore ==
    [][(st.pc = "info" /\ st' # st) => store' = store]_vars

C27_Witness ==
    /\ st.pc = "done"
    /\ st.threw
    /\ st.failed = "stats"
    /\ Len(st.replies) = 2
    /\ TTL(store, UserU) = MaxTTL
    /\ TTL(store, TempA) = NoExpiry

\* C28: when one of the section queries fails, getCacheStats still returns
\* a mapping, with the sections that were answered.
C28_PartialFailureReported ==
    (st.pc = "done" /\ st.failed # "none")
        => /\ ~st.threw
           /\ \A i \in 1..Len(st.replies) : st.result[i] = ParseInfo(st.replies[i])

(***************************************************************************)
(* FairConn: the callers' commands on a connection whose store becomes     *)
(* unreachable and stays so.  The server answers what it has received      *)
(* while it is up, and the client keeps making its reconnect attempts.     *)
(***************************************************************************)
NextConn ==
    \/ \E p \in Procs : CmdCall(p)
    \/ \E p \in Procs : CmdReply(p)
    \/ StoreDown
    \/ ReconnectAttempt
    \/ ReconnectDelayOver

FairConn ==
    /\ InitEmpty
    /\ [][NextConn]_vars
    /\ \A p \in Procs : WF_vars(CmdReply(p))
    /\ WF_vars(ReconnectAttempt)
    /\ WF_vars(ReconnectDelayOver)

\* C30: once the store is unreachable, every operation that is waiting for
\* the store, pending or invoked afterwards, eventually ends with an error.
C30_UnreachableStoreEndsCalls ==
    \A p \in Procs :
        (conn.server = "down" /\ conn.cmd[p].pc \in {"sent", "queued"})
            ~> (conn.cmd[p].pc = "rejected")

\* C33: from one failed attempt to the next the reconnect delay never
\* decreases, never exceeds 1000 ms and, below the cap, at least doubles.
C33_CappedExponentialBackoff ==
    [][(conn'.retries > conn.retries /\ conn.retries > 0)
          => /\ conn'.delay >= conn.delay
             /\ conn'.delay <= 1000
             /\ (conn.delay > 0 /\ conn'.delay < 1000) => conn'.delay >= 2 * conn.delay]_vars

(***************************************************************************)
(* SpecSched: the cleanup scheduler among ordinary traffic.                *)
(***************************************************************************)

NextSchedTraffic ==
    \/ \E k \in {TempA, SessionS} : ClientSet(k, "session-data")
    \/ \E t \in TTLs : ClientSetEx(SessionS, t, "session-data")
    \/ \E k \in {TempA, SessionS} : ClientDel(k)
    \/ ElapseClocked(1)

NextSchedRun ==
    \/ StartAutoCleanup
    \/ ClearInterval
    \/ \E p \in Procs : TimerFire(p)
    \/ \E p \in Procs : CleanupKeys(p)
    \/ \E p \in Procs : CleanupTtl(p)
    \/ \E p \in Procs : CleanupDel(p)
    \/ \E p \in Procs : TickSessionKeys(p)
    \/ \E p \in Procs : TickSessionTtl(p)
    \/ \E p \in Procs : TickSessionExpire(p)
    \/ \E p \in Procs : TickStats(p)

NextSched ==
    \/ NextSchedRun
    \/ \E p \in Procs : TickFail(p)
    \/ NextSchedTraffic

SpecSched == InitEmpty /\ [][NextSched]_vars

(***************************************************************************)
(* FairSched: the scheduler while every store call succeeds.  setInterval  *)
(* keeps firing while the timer is active, and every store call a run      *)
(* awaits is answered.                                                     *)
(***************************************************************************)
NextSchedLive ==
    \/ NextSchedRun
    \/ NextSchedTraffic

FairSched ==
    /\ InitEmpty
    /\ [][NextSchedLive]_vars
    /\ WF_vars(StartAutoCleanup)
    /\ \A p \in Procs : WF_vars(TimerFire(p)) /\ WF_vars(TickStep(p))

C7_AtMostOneRunInFlight == Cardinality({p \in Procs : InFlight(p)}) <= 1

\* C9: a store call that fails in a run ends that run only: after any number
\* of failed runs the timer is still active unless it was cancelled, only the
\* cancellation deactivates it, and while it is active the next run can start.
C9_FailedRunKeepsTimer ==
    /\ [](timer.failed > 0 => timer.st \in {"active", "cleared"})
    /\ []((timer.st = "active" /\ \E p \in Procs : ~InFlight(p)) =>
             \E p \in Procs : ENABLED TimerFire(p))
    /\ [][(timer.st = "active" /\ timer'.st # "active") =>
             (timer'.st = "cleared" /\ tick' = tick /\ store' = store)]_vars

\* C9 witness: a run has started after MaxFailed consecutive failed runs.
C9_Witness ==
    /\ timer.st = "active"
    /\ timer.failed = MaxFailed
    /\ timer.firedAfter = MaxFailed
    /\ \E p \in Procs : InFlight(p)

C32_TickStepOrder ==
    /\ [][\A p \in Procs :
             tick'[p].pc # tick[p].pc
               => /\ <<tick[p].pc, tick'[p].pc>> \in
                       {<<"idle", "purge">>, <<"purge", "skeys">>, <<"purge", "idle">>,
                        <<"skeys", "sttl">>, <<"skeys", "stats">>, <<"skeys", "idle">>,
                        <<"sttl", "sexpire">>, <<"sttl", "stats">>, <<"sttl", "idle">>,
                        <<"sexpire", "sttl">>, <<"sexpire", "stats">>, <<"sexpire", "idle">>,
                        <<"stats", "idle">>}
                  /\ \A q \in Procs \ {p} : tick'[q] = tick[q] /\ cl'[q] = cl[q]
                  /\ timer'.st = timer.st]_vars
    /\ [](\A p \in Procs :
             /\ tick[p].pc = "purge"
                   => cl[p].pattern = TempPattern /\ cl[p].pc \in {"keys", "ttl", "del"}
             /\ tick[p].pc \notin {"idle", "purge"} => cl[p].pc = "idle")

C32_Witness ==
    /\ timer.failed > 0
    /\ timer.firedAfter > 0
    /\ tick[1].pc = "stats"
    /\ TTL(store, SessionS) = SessionDefaultTTL

\* C34: the backfill's expire command does not change the TTL of a session
\* key that has a TTL when the command arrives.
C34_BackfillKeepsExistingTTL ==
    [][\A p \in Procs :
          (tick[p].pc = "sexpire" /\ tick'[p].pc \notin {"sexpire", "idle"}
              /\ TTL(store, TickKey(p)) > 0)
            => TTL(store', TickKey(p)) = TTL(store, TickKey(p))]_vars

(***************************************************************************)
(* SpecBloomSched: createBloomCache while the cleanup scheduler runs.  The *)
(* expire of a creation may fail, and the caller may send an expire for    *)
(* the filter again later.                                                 *)
(***************************************************************************)

NextBloomSched ==
    \/ \E n \in {TempA, SessionS, BloomP} :
          CreateBloomCacheCall(n, DefaultErrorRate, DefaultCapacity, MaxTTL)
    \/ BcReserve
    \/ BcExpire
    \/ BcExpireFail
    \/ ReissueExpire(MaxTTL)
    \/ StartAutoCleanup
    \/ \E p \in Procs : TimerFire(p)
    \/ \E p \in Procs : TickStep(p)

SpecBloomSched == InitEmpty /\ [][NextBloomSched]_vars

NextWeb ==
    \/ \E p \in Procs, kind \in {"stats", "set", "get"} : WebRequest(p, kind)
    \/ \E p \in Procs : ConnectDone(p)
    \/ ReplyHead
    \/ QuitDone

SpecWeb == InitEmpty /\ [][NextWeb]_vars

\* C37: in the web server, which puts cacheManager.connect() and
\* cacheManager.disconnect() around every cache request on its one manager,
\* no request's command meets a client that a concurrent request has
\* closed: no request ends in an error.
C37_RequestsNeverMeetClosedClient ==
    \A p \in Procs : conn.req[p].pc # "failed" /\ conn.req[p].err = NoError

\* C38: connect() on an open client and disconnect() on a closed client
\* send nothing, and of two overlapping connect() calls exactly one calls
\* client.connect(): the count of connection attempts changes only on a
\* client that is not open, and by one; a request that starts on an open
\* client, connected or still connecting, adds nothing but its first
\* command to the queue and does not fail; a request whose disconnect()
\* finds the client closed adds no QUIT; and client.connect() returns to
\* its caller only on a ready socket, never with an error.
C38_ConnectDisconnectIdempotent ==
    /\ [][conn'.attempts # conn.attempts
            => ~conn.isOpen /\ conn'.isOpen /\ conn'.attempts = conn.attempts + 1]_vars
    /\ [][\A p \in Procs :
            (conn.isOpen /\ conn.req[p].pc \in {"idle", "ok", "failed"}
                         /\ conn'.req[p] # conn.req[p])
              => /\ conn'.attempts = conn.attempts
                 /\ conn'.socket = conn.socket
                 /\ conn'.isOpen
                 /\ conn'.req[p].pc = "cmd"
                 /\ conn'.wire = Append(conn.wire,
                                        [p |-> p, cmd |-> Head(Program(conn'.req[p].kind))])]_vars
    /\ [][\A p \in Procs :
            (conn.req[p].pc = "cmd" /\ conn'.req[p].pc = "ok")
              => ~conn.isOpen /\ ~conn'.isOpen /\ conn'.wire = Tail(conn.wire)]_vars
    /\ [][\A p \in Procs :
            (conn.req[p].pc = "connect" /\ conn'.req[p].pc # "connect")
              => conn'.socket = "ready" /\ conn'.req[p].err = NoError
                                       /\ conn'.req[p].pc = "cmd"]_vars

\* C38 witness: on a client that an earlier request closed, one request's
\* connect() awaits client.connect() while the other's has returned and its
\* first command waits in the queue: one connection attempt for the two.
C38_Witness ==
    /\ conn.attempts = 1
    /\ conn.socket = "connecting"
    /\ conn.req[1].pc = "connect"
    /\ conn.req[2].pc = "cmd"
    /\ conn.wire = <<[p |-> 2, cmd |-> "setEx"]>>

(***************************************************************************)
(* SpecDemo: the demo program, src/index.ts, and the SIGINT signals it     *)
(* receives while main() runs.  The store is empty or holds the filter a   *)
(* previous run has left, complete or interrupted, which an operator may   *)
(* delete at any time (redis-cli DEL bikes:models).                        *)
(***************************************************************************)
NextDemo ==
    \/ Main
    \/ ClientDel(BikesModels)
    \/ \E p \in Procs : Sigint(p)
    \/ ConnectDone(0)
    \/ ReplyHead
    \/ QuitDone

SpecDemo ==
    /\ store \in {EmptyStore,
                  BFRESERVE(EmptyStore, BikesModels, 1, 1000),
                  BFADD(BFRESERVE(EmptyStore, BikesModels, 1, 1000), BikesModels, "p1"),
                  BFMADD(BFADD(BFRESERVE(EmptyStore, BikesModels, 1, 1000), BikesModels, "p1"),
                         BikesModels, <<"p2", "p3", "p4">>, 1)}
    /\ clock = 0
    /\ last = NoOp
    /\ cl = [p \in Procs |-> ClIdle]
    /\ gw = GwIdle
    /\ sl = SlIdle
    /\ bc = BcIdle
    /\ batch = [p \in Procs |-> BatchIdle]
    /\ st = StIdle
    /\ timer = [st |-> "none", failed |-> 0, firedAfter |-> 0, inflight |-> {}]
    /\ tick = [p \in Procs |-> TickIdle]
    /\ conn = [ConnReady EXCEPT !.socket = "closed", !.isOpen = FALSE]
    /\ [][NextDemo]_vars

\* C40: once a SIGINT handler has run, the demo does not exit with code 1,
\* at whatever point of main() the signal arrived.
C40_SigintNeverExitsOne ==
    (\E p \in Procs : conn.req[p].kind = "sigint") => conn.exit # 1

====
